---- MODULE Spec2Model ----
(***************************************************************************)
(* Model of the doctobot availability watchers: src/ap.py (dermatologists, *)
(* with a persisted snapshot and change detection) and src/app.py          *)
(* (paediatric pneumologists, two sources, no persistence).                *)
(*                                                                         *)
(* Instants are integers: ticks since 2025-01-01 00:00 Europe/Paris, with  *)
(* TicksPerDay ticks in a day; tick 0 of a day is midnight.  Every instant *)
(* of the model is already expressed in Europe/Paris.                      *)
(***************************************************************************)
EXTENDS Integers, Sequences, FiniteSets, TLC

VARIABLES
    \* --- DateTextParser (parse_date_fr) ---
    ptext,      \* the container text handed to parse_date_fr
    pclock,     \* what datetime.now() reads inside parse_date_fr
    pvariant,   \* "ap" or "app": which file's parse_date_fr ran
    parsed,     \* its result
    \* --- AvailabilityExtractor (one extraction pass) ---
    cards,      \* the raw cards the page gave, in page order
    fnow,       \* now, read once before the loop over the cards
    fsrc,       \* which fetch function ran: "ap", "doctolib", "maiia" ("none": not yet)
    fwindow,    \* the window in days
    out,        \* the records the pass returned
    \* --- Canonicalizer (canonicalize) ---
    recs,       \* a list of records
    recs2,      \* the same records in another order
    canon,      \* canonicalize(recs)
    canon2,     \* canonicalize(recs2)
    cdone,      \* canonicalize has run
    \* --- one process of src/ap.py after another ---
    stored,     \* the file at STATE_PATH
    lastSave,   \* history: the run whose save_state wrote the file as it is now
    pc,         \* "idle": no process; "done": main() has ended, as recorded below
    before,     \* the file when the run started
    prevSave,   \* lastSave when the run started
    notifyWhenEmpty, \* NOTIFY_WHEN_EMPTY == "1" in the run's environment
    old,        \* state.get("items", [])
    new,        \* canonicalize(items)
    added,      \* compute_diff(old, new)[0]
    removed,    \* compute_diff(old, new)[1]
    calls,      \* the functions main() called, in order
    message,    \* the text handed to send_telegram ("none": not called)
    delivery,   \* "ok", "failed", "nocreds" ("none": send_telegram not called)
    saveArg,    \* the list handed to save_state
    saveEnd,    \* how save_state ended: "done", "error", "kill" ("none": not called)
    exit,       \* "ok", "raised" (unhandled exception), "killed"
    error       \* the exception that ended the run ("": none)

parseVars == <<ptext, pclock, pvariant, parsed>>

fetchVars == <<cards, fnow, fsrc, fwindow, out>>

canonVars == <<recs, recs2, canon, canon2, cdone>>

runVars == <<before, prevSave, notifyWhenEmpty, old, new, added, removed, calls,
             message, delivery, saveArg, saveEnd, exit, error>>

mainVars == <<stored, lastSave, pc, runVars>>

vars == <<ptext, pclock, pvariant, parsed, cards, fnow, fsrc, fwindow, out,
          recs, recs2, canon, canon2, cdone,
          stored, lastSave, pc, before, prevSave, notifyWhenEmpty, old, new, added,
          removed, calls, message, delivery, saveArg, saveEnd, exit, error>>

(***************************************************************************)
(* Bounds of the model.                                                    *)
(***************************************************************************)
TicksPerDay == 4

\* the longest sequence of raw cards of one pass
MaxCards == 2

\* the longest list of records handed to canonicalize on its own
MaxRecs == 2

\* the most ticks the clock advances between the read of now before the loop
\* and the read of datetime.now() inside parse_date_fr
MaxLag == 1

Years == 2025 .. 2026

EpochYear == CHOOSE y \in Years : \A z \in Years : y <= z

(***************************************************************************)
(* Calendar arithmetic of datetime / timedelta / dateutil.                 *)
(***************************************************************************)
IsLeap(y) == (y % 4 = 0 /\ y % 100 # 0) \/ y % 400 = 0

DaysInMonth(y, m) ==
    CASE m \in {4, 6, 9, 11} -> 30
      [] m = 2 -> IF IsLeap(y) THEN 29 ELSE 28
      [] OTHER -> 31

DaysInYear(y) == IF IsLeap(y) THEN 366 ELSE 365

RECURSIVE DaysBeforeMonth(_, _)
DaysBeforeMonth(y, m) ==
    IF m <= 1 THEN 0 ELSE DaysBeforeMonth(y, m - 1) + DaysInMonth(y, m - 1)

RECURSIVE DaysBeforeYear(_)
DaysBeforeYear(y) ==
    IF y <= EpochYear THEN 0 ELSE DaysBeforeYear(y - 1) + DaysInYear(y - 1)

\* number of the day (y, m, d), day 0 being 1 January of EpochYear
ToOrdinal(y, m, d) == DaysBeforeYear(y) + DaysBeforeMonth(y, m) + (d - 1)

ValidDate(y, m, d) == m \in 1 .. 12 /\ d >= 1 /\ d <= DaysInMonth(y, m)

\* datetime(y, m, d) at time of day tod
MakeDT(y, m, d, tod) == ToOrdinal(y, m, d) * TicksPerDay + tod

DayOf(t) == t \div TicksPerDay

TimeOfDay(t) == t % TicksPerDay

RECURSIVE YearOfOrdinal(_, _)
YearOfOrdinal(n, y) ==
    IF n < DaysBeforeYear(y + 1) THEN y ELSE YearOfOrdinal(n, y + 1)

RECURSIVE MonthOfOrdinal(_, _, _)
MonthOfOrdinal(n, y, m) ==
    IF n < DaysBeforeYear(y) + DaysBeforeMonth(y, m + 1) THEN m
    ELSE MonthOfOrdinal(n, y, m + 1)

YearOf(t) == YearOfOrdinal(DayOf(t), EpochYear)

MonthOf(t) == MonthOfOrdinal(DayOf(t), YearOf(t), 1)

DayOfMonth(t) ==
    DayOf(t) - DaysBeforeYear(YearOf(t)) - DaysBeforeMonth(YearOf(t), MonthOf(t)) + 1

\* d.strftime("%Y-%m-%d"): the calendar day, ordered as the string is
DayString(t) == <<YearOf(t), MonthOf(t), DayOfMonth(t)>>

\* dt + timedelta(days = n)
PlusDays(t, n) == t + n * TicksPerDay

(***************************************************************************)
(* Container texts.  A text is what the date patterns can find in it:      *)
(*   lead : "prochain" ("Prochain RDV le ..."), "dispo" ("Disponibilites   *)
(*          le ..."), "bare" (a day and a word with no such lead), "none"  *)
(*          (no digits followed by a word at all)                          *)
(*   d, mon, y : the day number, the word after it, the year (0: absent)   *)
(*   kw   : "today" (aujourd'hui), "tomorrow" (demain) or "none"           *)
(***************************************************************************)
NoYear == 0

Text(lead, d, mon, y, kw) == [lead |-> lead, d |-> d, mon |-> mon, y |-> y, kw |-> kw]

NoDateText(kw) == Text("none", 0, "", NoYear, kw)

MonthNumber(en) ==
    CASE en = "January" -> 1 [] en = "February" -> 2 [] en = "March" -> 3
      [] en = "April" -> 4 [] en = "May" -> 5 [] en = "June" -> 6
      [] en = "July" -> 7 [] en = "August" -> 8 [] en = "September" -> 9
      [] en = "October" -> 10 [] en = "November" -> 11 [] en = "December" -> 12
      [] OTHER -> 0

\* src/ap.py MONTHS_FR
MONTHS_FR ==
    [janvier |-> "January", fevrier |-> "February", mars |-> "March",
     avril |-> "April", mai |-> "May", juin |-> "June", juillet |-> "July",
     aout |-> "August", septembre |-> "September", octobre |-> "October",
     novembre |-> "November", decembre |-> "December"]

\* the accented spellings both tables also carry
AccentedMonths ==
    [fevrierAccent |-> "February", aoutAccent |-> "August", decembreAccent |-> "December"]

\* src/ap.py fr_to_en_date: a word of the table becomes the English month name,
\* any other word passes through unchanged
fr_to_en_date(w) ==
    IF w \in DOMAIN MONTHS_FR THEN MONTHS_FR[w]
    ELSE IF w \in DOMAIN AccentedMonths THEN AccentedMonths[w]
    ELSE w

\* src/app.py fr_to_en_date: its table has no unaccented "decembre"
fr_to_en_date_app(w) ==
    IF w = "decembre" THEN w ELSE fr_to_en_date(w)

NotFound == [found |-> FALSE, t |-> 0]

Found(t) == [found |-> TRUE, t |-> t]

\* dateutil's dp.parse(en, dayfirst=True, default=dflt): the fields the text
\* gives replace those of dflt; a word that is no month name, or a day the
\* month does not have, raises (found = FALSE)
dp_parse(d, en, y, dflt) ==
    LET m  == MonthNumber(en)
        yy == IF y = NoYear THEN YearOf(dflt) ELSE y
    IN  IF m # 0 /\ ValidDate(yy, m, d)
        THEN Found(MakeDT(yy, m, d, TimeOfDay(dflt)))
        ELSE NotFound

\* the DATE_PATTERNS of src/ap.py, in order: what group(1) holds, or no match
DatePatternAp(i, text) ==
    CASE i = 1 -> IF text.lead = "prochain" /\ text.y # NoYear
                  THEN [m |-> TRUE, d |-> text.d, mon |-> text.mon, y |-> text.y]
                  ELSE [m |-> FALSE, d |-> 0, mon |-> "", y |-> NoYear]
      [] i = 2 -> IF text.lead = "prochain"
                  THEN [m |-> TRUE, d |-> text.d, mon |-> text.mon, y |-> NoYear]
                  ELSE [m |-> FALSE, d |-> 0, mon |-> "", y |-> NoYear]
      [] OTHER -> IF text.lead = "dispo"
                  THEN [m |-> TRUE, d |-> text.d, mon |-> text.mon, y |-> text.y]
                  ELSE [m |-> FALSE, d |-> 0, mon |-> "", y |-> NoYear]

\* the default handed to dp.parse: now with month = 1, day = 1
JanuaryFirst(clock) == MakeDT(YearOf(clock), 1, 1, TimeOfDay(clock))

RECURSIVE TryPatternsAp(_, _, _)
TryPatternsAp(i, text, clock) ==
    IF i > 3 THEN NotFound
    ELSE LET g == DatePatternAp(i, text)
             r == IF g.m
                  THEN dp_parse(g.d, fr_to_en_date(g.mon), g.y, JanuaryFirst(clock))
                  ELSE NotFound
         IN  IF r.found THEN r ELSE TryPatternsAp(i + 1, text, clock)

\* src/ap.py parse_date_fr; clock is what datetime.now() reads
parse_date_fr(text, clock) ==
    LET r == TryPatternsAp(1, text, clock)
    IN  IF r.found THEN r
        ELSE IF text.kw = "today" THEN Found(clock)
        ELSE IF text.kw = "tomorrow" THEN Found(PlusDays(clock, 1))
        ELSE NotFound

\* dp.parse's own default: today at midnight
TodayMidnight(clock) == DayOf(clock) * TicksPerDay

\* the two date patterns of src/app.py, which need no lead
DatePatternApp(i, text) ==
    IF text.lead = "none" \/ (i = 1 /\ text.y = NoYear)
    THEN [m |-> FALSE, d |-> 0, mon |-> "", y |-> NoYear]
    ELSE [m |-> TRUE, d |-> text.d, mon |-> text.mon,
          y |-> IF i = 1 THEN text.y ELSE NoYear]

RECURSIVE TryPatternsApp(_, _, _)
TryPatternsApp(i, text, clock) ==
    IF i > 2 THEN NotFound
    ELSE LET g == DatePatternApp(i, text)
             r == IF g.m
                  THEN dp_parse(g.d, fr_to_en_date_app(g.mon), g.y, TodayMidnight(clock))
                  ELSE NotFound
         IN  IF r.found THEN r ELSE TryPatternsApp(i + 1, text, clock)

\* src/app.py parse_date_fr
parse_date_fr_app(text, clock) ==
    LET r == TryPatternsApp(1, text, clock)
    IN  IF r.found THEN r
        ELSE IF text.kw = "today" THEN Found(clock)
        ELSE IF text.kw = "tomorrow" THEN Found(PlusDays(clock, 1))
        ELSE NotFound

(***************************************************************************)
(* AvailabilityExtractor.  A raw card is                                   *)
(*   name   : the link's inner text, before strip()                        *)
(*   href   : the link's href attribute ("" when it has none)              *)
(*   text   : the text of the enclosing container                          *)
(*   broken : the enclosing container cannot be read (the read raises)     *)
(*   lag    : how far the clock has advanced when the card is parsed       *)
(***************************************************************************)
WINDOW_DAYS == 14

DEFAULT_WINDOW_DAYS == 14

\* str.strip() on the names of the model
strip(s) ==
    CASE s = " Dr. Dupont " -> "Dr. Dupont"
      [] s = "  " -> ""
      [] OTHER -> s

\* href.startswith("/")
IsRelative(href) == href \in {"/x", "/y"}

\* base + href
Concat(base, href) ==
    CASE base = "https://www.doctolib.fr" /\ href = "/x" -> "https://www.doctolib.fr/x"
      [] base = "https://www.doctolib.fr" /\ href = "/y" -> "https://www.doctolib.fr/y"
      [] base = "https://www.maiia.com" /\ href = "/x" -> "https://www.maiia.com/x"
      [] base = "https://www.maiia.com" /\ href = "/y" -> "https://www.maiia.com/y"
      [] OTHER -> href

\* "https://..." + href if href.startswith("/") else href
ResolveUrl(base, href) == IF IsRelative(href) THEN Concat(base, href) ELSE href

\* list.sort(key = date): stable, ascending
RECURSIVE InsertByDate(_, _)
InsertByDate(sorted, it) ==
    IF sorted = <<>> THEN <<it>>
    ELSE IF sorted[Len(sorted)].date <= it.date THEN Append(sorted, it)
    ELSE Append(InsertByDate(SubSeq(sorted, 1, Len(sorted) - 1), it), sorted[Len(sorted)])

RECURSIVE SortByDate(_)
SortByDate(items) ==
    IF items = <<>> THEN <<>>
    ELSE InsertByDate(SortByDate(SubSeq(items, 1, Len(items) - 1)), items[Len(items)])

\* the loop over the cards of src/ap.py fetch_derm_in_14_days
RECURSIVE LoopAp(_, _, _, _, _)
LoopAp(cs, i, now, seen, acc) ==
    IF i > Len(cs) THEN acc
    ELSE LET a    == cs[i]
             name == strip(a.name)
             href == a.href
             dt   == parse_date_fr(a.text, now + a.lag)
             url  == ResolveUrl("https://www.doctolib.fr", href)
             key  == <<name, url>>
         IN  IF name = "" \/ href = "" THEN LoopAp(cs, i + 1, now, seen, acc)
             ELSE IF a.broken THEN LoopAp(cs, i + 1, now, seen, acc)
             ELSE IF ~dt.found THEN LoopAp(cs, i + 1, now, seen, acc)
             ELSE IF now <= dt.t /\ dt.t <= PlusDays(now, WINDOW_DAYS)
             THEN IF key \in seen THEN LoopAp(cs, i + 1, now, seen, acc)
                  ELSE LoopAp(cs, i + 1, now, seen \cup {key},
                              Append(acc, [name |-> name, date |-> dt.t, url |-> url]))
             ELSE LoopAp(cs, i + 1, now, seen, acc)

RECURSIVE Reverse(_)
Reverse(q) == IF q = <<>> THEN <<>> ELSE Append(Reverse(Tail(q)), Head(q))

\* a pass in which the last card of a (name, url) pair wins instead of the first
fetch_derm_last_wins(cs, now) == SortByDate(LoopAp(Reverse(cs), 1, now, {}, <<>>))

\* src/ap.py fetch_derm_in_14_days, from the cards the page gave
fetch_derm_in_14_days(cs, now) == SortByDate(LoopAp(cs, 1, now, {}, <<>>))

\* the loop over the cards of src/app.py fetch_doctolib and fetch_maiia
RECURSIVE LoopApp(_, _, _, _, _, _, _, _)
LoopApp(cs, i, now, window_days, base, tag, seen, acc) ==
    IF i > Len(cs) THEN acc
    ELSE LET a    == cs[i]
             name == strip(a.name)
             href == a.href
             dt   == parse_date_fr_app(a.text, now + a.lag)
             url  == ResolveUrl(base, href)
             next(s, o) == LoopApp(cs, i + 1, now, window_days, base, tag, s, o)
         IN  IF a.broken THEN next(seen, acc)
             ELSE IF dt.found /\ now <= dt.t /\ dt.t <= PlusDays(now, window_days)
             THEN IF <<name, url>> \notin seen
                  THEN next(seen \cup {<<name, url>>},
                            Append(acc, [source |-> tag, name |-> name,
                                         date |-> dt.t, url |-> url]))
                  ELSE next(seen, acc)
             ELSE next(seen, acc)

\* src/app.py fetch_doctolib
fetch_doctolib(cs, now, window_days) ==
    LoopApp(cs, 1, now, window_days, "https://www.doctolib.fr", "Doctolib", {}, <<>>)

\* src/app.py fetch_maiia
fetch_maiia(cs, now, window_days) ==
    LoopApp(cs, 1, now, window_days, "https://www.maiia.com", "Maiia", {}, <<>>)

RECURSIVE SeqsUpTo(_, _)
SeqsUpTo(S, n) ==
    IF n = 0 THEN {<<>>}
    ELSE LET shorter == SeqsUpTo(S, n - 1)
         IN  shorter \cup { Append(s, x) : s \in { t \in shorter : Len(t) = n - 1 }, x \in S }

(***************************************************************************)
(* Canonicalizer and DiffEngine.                                           *)
(***************************************************************************)
\* the strings of the model in the order Python compares them (code points)
StringOrder ==
    << "", "  ", " Dr. Dupont ", "Dr. Dupont", "Dr. Martin", "/x", "/y",
       "https://www.doctolib.fr/x", "https://www.doctolib.fr/y",
       "https://www.maiia.com/x", "https://www.maiia.com/y" >>

Rank(str) == CHOOSE i \in 1 .. Len(StringOrder) : StringOrder[i] = str

\* a < b for tuples of integers of the same length, as Python compares tuples
RECURSIVE TupleLess(_, _)
TupleLess(a, b) ==
    IF a = <<>> THEN FALSE
    ELSE IF Head(a) # Head(b) THEN Head(a) < Head(b)
    ELSE TupleLess(Tail(a), Tail(b))

\* key = lambda x: (x["day"], x["name"], x["url"])
CanonSortKey(x) == x.day \o <<Rank(x.name), Rank(x.url)>>

\* sorted(canon, key = ...): stable, ascending
RECURSIVE InsertByKey(_, _)
InsertByKey(sorted, x) ==
    IF sorted = <<>> THEN <<x>>
    ELSE IF ~TupleLess(CanonSortKey(x), CanonSortKey(sorted[Len(sorted)]))
    THEN Append(sorted, x)
    ELSE Append(InsertByKey(SubSeq(sorted, 1, Len(sorted) - 1), x), sorted[Len(sorted)])

RECURSIVE SortedByKey(_)
SortedByKey(xs) ==
    IF xs = <<>> THEN <<>>
    ELSE InsertByKey(SortedByKey(SubSeq(xs, 1, Len(xs) - 1)), xs[Len(xs)])

\* it["date"].astimezone(TZ).strftime("%Y-%m-%d"); an instant of the model is
\* already in Europe/Paris
CanonOf(it) == [name |-> it.name, url |-> it.url, day |-> DayString(it.date)]

\* canon.append({...}) for each item, in order
RECURSIVE CanonList(_)
CanonList(items) ==
    IF items = <<>> THEN <<>> ELSE <<CanonOf(Head(items))>> \o CanonList(Tail(items))

\* src/ap.py canonicalize
canonicalize(items) == SortedByKey(CanonList(items))

\* {(i["name"], i["url"], i["day"]) for i in snapshot}
KeySet(snapshot) ==
    { <<snapshot[i].name, snapshot[i].url, snapshot[i].day>> : i \in 1 .. Len(snapshot) }

\* src/ap.py compute_diff
compute_diff(o, n) ==
    LET old_set == KeySet(o)
        new_set == KeySet(n)
    IN  [added |-> new_set \ old_set, removed |-> old_set \ new_set]

Card(name, href, text, lag, broken) ==
    [name |-> name, href |-> href, text |-> text, lag |-> lag, broken |-> broken]

(***************************************************************************)
(* StateStore.  The file at STATE_PATH is                                  *)
(*   kind "absent"  : no such file (or it cannot be opened)                *)
(*   kind "garbage" : bytes that are no JSON document                      *)
(*   kind "partial" : the beginning of a dump that never ended: entries    *)
(*                    holds what reached the file, no closing brackets     *)
(*   kind "json"    : a JSON document; top is "object" or "array", items   *)
(*                    says what the object holds under "items" ("list",    *)
(*                    "null", "missing"), entries the elements of the list *)
(* An element is [shape, hasDay, name, url, day]: shape "object" with the  *)
(* keys name and url, and day when hasDay; or shape "number".              *)
(***************************************************************************)
File(kind, top, items, entries) ==
    [kind |-> kind, top |-> top, items |-> items, entries |-> entries]

NoFile == File("absent", "", "", <<>>)

Garbage == File("garbage", "", "", <<>>)

JsonObject(k) ==
    [shape |-> "object", hasDay |-> TRUE, name |-> k.name, url |-> k.url, day |-> k.day]

JsonNumber == [shape |-> "number", hasDay |-> FALSE, name |-> "", url |-> "", day |-> <<0, 0, 0>>]

\* the elements json.dump writes for the list, in order
RECURSIVE JsonList(_)
JsonList(items) ==
    IF items = <<>> THEN <<>> ELSE <<JsonObject(Head(items))>> \o JsonList(Tail(items))

\* json.dump({"items": items}, f, ...) run to its end
json_dump(items) == File("json", "object", "list", JsonList(items))

\* a dump cut after its first k elements
PartialDump(items, k) == File("partial", "object", "list", SubSeq(JsonList(items), 1, k))

\* {"items": []}
EmptyState == [top |-> "object", items |-> "list", entries |-> <<>>]

\* a load that ignores the file
load_state_forgets(file) == EmptyState

\* src/ap.py load_state: what json.load returns, or {"items": []} when open or
\* json.load raises
load_state(file) ==
    IF file.kind = "json"
    THEN [top |-> file.top, items |-> file.items, entries |-> file.entries]
    ELSE EmptyState

\* how a call of save_state for a list of n elements ends: it returns
\* ("done"), it raises OSError ("error") or the process is killed ("kill"), in
\* os.makedirs, in open, or in json.dump after k elements reached the file
SaveEndings(n) ==
    {[how |-> "done", at |-> "return", k |-> 0]}
    \cup { [how |-> h, at |-> a, k |-> 0] : h \in {"error", "kill"}, a \in {"makedirs", "open"} }
    \cup { [how |-> h, at |-> "write", k |-> k] : h \in {"error", "kill"}, k \in 0 .. n }

\* src/ap.py save_state: the file it leaves.  os.makedirs and a failed open
\* leave the file as it was; open(STATE_PATH, "w") empties it; json.dump then
\* writes into it
save_state(file, items, ending) ==
    CASE ending.how = "done" -> json_dump(items)
      [] ending.at = "makedirs" -> file
      [] ending.at = "open" /\ ending.how = "error" -> file
      [] ending.at = "open" /\ ending.how = "kill" -> PartialDump(items, 0)
      [] OTHER -> PartialDump(items, ending.k)

NoMessage == [kind |-> "none", lines |-> <<>>]

NoSave == [valid |-> FALSE, items |-> <<>>, delivery |-> "none"]

(***************************************************************************)
(* The parts of the state a specification does not use stay as they are    *)
(* here.                                                                   *)
(***************************************************************************)
ParseIdle ==
    /\ ptext = NoDateText("none")
    /\ pvariant = "ap"
    /\ parsed = NotFound

FetchIdle ==
    /\ cards = <<>>
    /\ fsrc = "none"
    /\ fwindow = WINDOW_DAYS
    /\ out = <<>>
    /\ fnow = MakeDT(2025, 2, 20, 1)

CanonIdle ==
    /\ recs = <<>>
    /\ recs2 = <<>>
    /\ canon = <<>>
    /\ canon2 = <<>>
    /\ cdone = FALSE

RunIdle ==
    /\ before = NoFile
    /\ prevSave = NoSave
    /\ notifyWhenEmpty = FALSE
    /\ old = <<>>
    /\ new = <<>>
    /\ added = {}
    /\ removed = {}
    /\ calls = <<>>
    /\ message = NoMessage
    /\ delivery = "none"
    /\ saveArg = <<>>
    /\ saveEnd = "none"
    /\ exit = "ok"
    /\ error = ""

MainIdle ==
    /\ stored = NoFile
    /\ lastSave = NoSave
    /\ pc = "idle"
    /\ RunIdle

(***************************************************************************)
(* main() of src/ap.py.                                                    *)
(***************************************************************************)
None == [isList |-> FALSE, entries |-> <<>>]

\* state.get("items", []): raises AttributeError when state is no dict
StateGet(state) ==
    IF state.top # "object" THEN [raises |-> "AttributeError", value |-> None]
    ELSE IF state.items = "missing" THEN [raises |-> "", value |-> [isList |-> TRUE, entries |-> <<>>]]
    ELSE IF state.items = "null" THEN [raises |-> "", value |-> None]
    ELSE [raises |-> "", value |-> [isList |-> TRUE, entries |-> state.entries]]

\* the exception compute_diff raises while it reads old ("": none)
DiffRaises(oldv) ==
    IF ~oldv.isList THEN "TypeError"
    ELSE IF \E i \in 1 .. Len(oldv.entries) : oldv.entries[i].shape # "object" THEN "TypeError"
    ELSE IF \E i \in 1 .. Len(oldv.entries) : ~oldv.entries[i].hasDay THEN "KeyError"
    ELSE ""

\* a decision that needs both additions and removals
Branch_needs_both(o, n, a, r, flag) ==
    IF o = <<>> /\ n = <<>> /\ flag THEN "empty"
    ELSE IF a # {} /\ r # {} THEN "changed"
    ELSE "quiet"

\* the if / elif / else of main()
Branch(o, n, a, r, flag) ==
    IF o = <<>> /\ n = <<>> /\ flag THEN "empty"
    ELSE IF a # {} \/ r # {} THEN "changed"
    ELSE "quiet"

\* a main() that saves before it sends
CallsOfBranch_saves_first(branch) ==
    CASE branch = "empty" -> <<"send_telegram">>
      [] branch = "changed" -> <<"save_state", "send_telegram">>
      [] OTHER -> <<>>

\* what each branch of main() calls, in order
CallsOfBranch(branch) ==
    CASE branch = "empty" -> <<"send_telegram">>
      [] branch = "changed" -> <<"send_telegram", "save_state">>
      [] OTHER -> <<>>

Called(f, log) == \E i \in 1 .. Len(log) : log[i] = f

\* the text main() hands to send_telegram
MessageOf(branch, items) ==
    CASE branch = "empty" -> [kind |-> "Aucune dispo detectee", lines |-> <<>>]
      [] branch = "changed" /\ items # <<>> -> [kind |-> "fmt", lines |-> items]
      [] branch = "changed" -> [kind |-> "Plus de disponibilite", lines |-> <<>>]
      [] OTHER -> [kind |-> "none", lines |-> <<>>]

\* src/ap.py send_telegram: nothing is posted without both credentials; an
\* exception of the post is printed and swallowed
send_telegram(creds, net) ==
    IF ~creds THEN "nocreds" ELSE IF net = "ok" THEN "ok" ELSE "failed"

\* main() from load_state to the choice of its branch: what it read, what it
\* computed, and the exception that ended it there ("": none)
Decide(file, items, flag) ==
    LET state   == load_state(file)
        got     == StateGet(state)
        n       == canonicalize(items)
        diffErr == IF got.raises # "" THEN "" ELSE DiffRaises(got.value)
        loaded  == got.raises = "" /\ diffErr = ""
        o       == IF loaded THEN got.value.entries ELSE <<>>
        d       == IF loaded THEN compute_diff(o, n) ELSE [added |-> {}, removed |-> {}]
    IN  [raises  |-> IF got.raises # "" THEN got.raises ELSE diffErr,
         old     |-> o,
         new     |-> IF got.raises # "" THEN <<>> ELSE n,
         added   |-> d.added,
         removed |-> d.removed,
         branch  |-> IF loaded THEN Branch(o, n, d.added, d.removed, flag) ELSE "quiet",
         log     |-> <<"fetch_derm_in_14_days", "load_state">>
                     \o (IF got.raises # "" THEN <<>> ELSE <<"canonicalize", "compute_diff">>)]

\* one process: asyncio.run(main()) from its start to its end
Main(cs, flag, creds, net, ending) ==
    /\ pc = "idle"
    /\ \E items \in {fetch_derm_in_14_days(cs, fnow)} :
       \E r \in {Decide(stored, items, flag)} :
       \E tail \in {CallsOfBranch(r.branch)} :
       \E sends \in {Called("send_telegram", tail)}, saves \in {Called("save_state", tail)} :
          /\ saves \/ ending.how = "done"
          /\ sends \/ (creds /\ net = "ok")
          /\ ending \in SaveEndings(Len(r.new))
          /\ pc' = "done"
          /\ cards' = cs
          /\ fsrc' = "ap"
          /\ out' = items
          /\ before' = stored
          /\ prevSave' = lastSave
          /\ notifyWhenEmpty' = flag
          /\ old' = r.old
          /\ new' = r.new
          /\ added' = r.added
          /\ removed' = r.removed
          /\ calls' = r.log \o tail
          /\ message' = IF sends THEN MessageOf(r.branch, items) ELSE NoMessage
          /\ delivery' = IF sends THEN send_telegram(creds, net) ELSE "none"
          /\ saveArg' = IF saves THEN r.new ELSE <<>>
          /\ saveEnd' = IF saves THEN ending.how ELSE "none"
          /\ stored' = IF saves THEN save_state(stored, r.new, ending) ELSE stored
          /\ lastSave' = IF ~saves \/ stored' = stored THEN lastSave
                         ELSE IF ending.how = "done"
                         THEN [valid |-> TRUE, items |-> items, delivery |-> delivery']
                         ELSE NoSave
          /\ error' = IF r.raises # "" THEN r.raises
                      ELSE IF saves /\ ending.how = "error" THEN "OSError"
                      ELSE ""
          /\ exit' = IF error' # "" THEN "raised"
                     ELSE IF saves /\ ending.how = "kill" THEN "killed"
                     ELSE "ok"
          /\ UNCHANGED <<fnow, fwindow, parseVars, canonVars>>

\* the process is gone; the file stays
Exit ==
    /\ pc = "done"
    /\ pc' = "idle"
    /\ before' = NoFile
    /\ prevSave' = NoSave
    /\ notifyWhenEmpty' = FALSE
    /\ old' = <<>>
    /\ new' = <<>>
    /\ added' = {}
    /\ removed' = {}
    /\ calls' = <<>>
    /\ message' = NoMessage
    /\ delivery' = "none"
    /\ saveArg' = <<>>
    /\ saveEnd' = "none"
    /\ exit' = "ok"
    /\ error' = ""
    /\ cards' = <<>>
    /\ fsrc' = "none"
    /\ out' = <<>>
    /\ UNCHANGED <<stored, lastSave, fnow, fwindow, parseVars, canonVars>>

(***************************************************************************)
(* Inputs of the run specification.                                        *)
(***************************************************************************)
\* seen from 2025-02-20: 5 March and 3 March 2025 (in the window), tomorrow,
\* 3 March 2026 (after the window)
MainCards ==
    { Card("Dr. Dupont", "/x", Text("prochain", 5, "mars", 2025, "none"), 0, FALSE),
      Card("Dr. Dupont", "/x", Text("prochain", 3, "mars", 2025, "none"), 0, FALSE),
      Card("Dr. Martin", "/y", NoDateText("tomorrow"), 0, FALSE),
      Card("Dr. Dupont", "/x", Text("prochain", 3, "mars", 2026, "none"), 0, FALSE) }

StaleKey == [name |-> "Dr. Dupont", url |-> "https://www.doctolib.fr/x", day |-> <<2025, 2, 19>>]

\* what the file can hold before the first run
InitialFiles ==
    { NoFile, Garbage,
      File("json", "array", "", <<>>),
      File("json", "object", "missing", <<>>),
      File("json", "object", "null", <<>>),
      File("json", "object", "list", <<>>),
      File("json", "object", "list", <<JsonNumber>>),
      File("json", "object", "list", <<[JsonObject(StaleKey) EXCEPT !.hasDay = FALSE]>>),
      File("json", "object", "list", <<JsonObject(StaleKey)>>) }

Init ==
    /\ stored \in InitialFiles
    /\ lastSave = NoSave
    /\ pc = "idle"
    /\ RunIdle
    /\ FetchIdle
    /\ ParseIdle
    /\ pclock = fnow
    /\ CanonIdle

Next ==
    \/ \E cs \in SeqsUpTo(MainCards, MaxCards), flag, creds \in BOOLEAN, net \in {"ok", "error"} :
          \E ending \in SaveEndings(MaxCards) : Main(cs, flag, creds, net, ending)
    \/ Exit

Spec == Init /\ [][Next]_vars

(***************************************************************************)
(* Inputs of the canonicalizer specification.                              *)
(***************************************************************************)
CanonRecords ==
    { [name |-> n, url |-> u, date |-> t] :
        n \in {"Dr. Dupont", "Dr. Martin"},
        u \in {"https://www.doctolib.fr/x", "https://www.doctolib.fr/y"},
        t \in { MakeDT(2025, 3, 3, 0), MakeDT(2025, 3, 3, 1), MakeDT(2025, 2, 21, 1) } }

\* b holds the elements of a, each as many times, in some order
IsPermutation(a, b) ==
    /\ Len(a) = Len(b)
    /\ \A x \in CanonRecords :
          Cardinality({ i \in 1 .. Len(a) : a[i] = x })
             = Cardinality({ i \in 1 .. Len(b) : b[i] = x })

CanonInit ==
    /\ recs \in SeqsUpTo(CanonRecords, MaxRecs)
    /\ recs2 \in { q \in SeqsUpTo(CanonRecords, MaxRecs) : IsPermutation(recs, q) }
    /\ canon = <<>>
    /\ canon2 = <<>>
    /\ cdone = FALSE
    /\ FetchIdle
    /\ ParseIdle
    /\ pclock = fnow
    /\ MainIdle

Canonicalize ==
    /\ ~cdone
    /\ canon' = canonicalize(recs)
    /\ canon2' = canonicalize(recs2)
    /\ cdone' = TRUE
    /\ UNCHANGED <<recs, recs2, parseVars, fetchVars, mainVars>>

CanonNext == Canonicalize

SpecCanon == CanonInit /\ [][CanonNext]_vars

(***************************************************************************)
(* Inputs of the extraction specification.                                 *)
(***************************************************************************)
\* the clock never runs backwards while the cards are read
ClockMonotone(cs) == \A i, j \in 1 .. Len(cs) : i <= j => cs[i].lag <= cs[j].lag

\* seen from 2025-02-20: cards dated 3 March 2025 (in the window), 6 March
\* without a year (its last day), 3 March 2026 (after it), and a card whose
\* container cannot be read
FetchCards ==
    { Card(name, href, Text("prochain", 3, "mars", 2025, "none"), 0, FALSE) :
        name \in {"", "Dr. Dupont", " Dr. Dupont "},
        href \in {"", "/x", "https://www.doctolib.fr/x"} }
    \cup { Card("Dr. Dupont", href, Text("prochain", 6, "mars", NoYear, "none"), lag, FALSE) :
        href \in {"/x", "https://www.doctolib.fr/x"}, lag \in 0 .. MaxLag }
    \cup { Card("Dr. Dupont", href, Text("prochain", 3, "mars", 2026, "none"), 0, FALSE) :
        href \in {"/x", "https://www.doctolib.fr/x"} }
    \cup { Card("Dr. Dupont", "/x", Text("prochain", 3, "mars", 2025, "none"), 0, TRUE) }

FetchInputs == { cs \in SeqsUpTo(FetchCards, MaxCards) : ClockMonotone(cs) }

Windows == {1, DEFAULT_WINDOW_DAYS}

FetchInit ==
    /\ cards \in FetchInputs
    /\ fwindow \in Windows
    /\ fsrc = "none"
    /\ out = <<>>
    /\ fnow = MakeDT(2025, 2, 20, 1)
    /\ ParseIdle
    /\ pclock = fnow
    /\ CanonIdle
    /\ MainIdle

\* one pass of src/ap.py fetch_derm_in_14_days over the cards of the page
FetchDerm ==
    /\ fsrc = "none"
    /\ fwindow = WINDOW_DAYS
    /\ fsrc' = "ap"
    /\ out' = fetch_derm_in_14_days(cards, fnow)
    /\ UNCHANGED <<cards, fnow, fwindow, parseVars, canonVars, mainVars>>

\* one pass of src/app.py fetch_doctolib
FetchDoctolib ==
    /\ fsrc = "none"
    /\ fsrc' = "doctolib"
    /\ out' = fetch_doctolib(cards, fnow, fwindow)
    /\ UNCHANGED <<cards, fnow, fwindow, parseVars, canonVars, mainVars>>

\* one pass of src/app.py fetch_maiia
FetchMaiia ==
    /\ fsrc = "none"
    /\ fsrc' = "maiia"
    /\ out' = fetch_maiia(cards, fnow, fwindow)
    /\ UNCHANGED <<cards, fnow, fwindow, parseVars, canonVars, mainVars>>

FetchNext == FetchDerm \/ FetchDoctolib \/ FetchMaiia

SpecFetch == FetchInit /\ [][FetchNext]_vars

(***************************************************************************)
(* Inputs of the parser specification.                                     *)
(***************************************************************************)
ParseTexts ==
    { Text(lead, d, mon, y, kw) :
        lead \in {"prochain", "dispo", "bare"}, d \in {3, 30},
        mon \in {"janvier", "fevrier", "mars", "decembre", "jours"},
        y \in {NoYear} \cup Years, kw \in {"none", "tomorrow"} }
    \cup { NoDateText(kw) : kw \in {"none", "today", "tomorrow"} }

\* 2025-02-20, 2025-03-03 and 2025-12-25, in the morning
Clocks == { MakeDT(2025, 2, 20, 1), MakeDT(2025, 3, 3, 1), MakeDT(2025, 12, 25, 1) }

ParseInit ==
    /\ ParseIdle
    /\ pclock \in Clocks
    /\ FetchIdle
    /\ CanonIdle
    /\ MainIdle

ParseAp(text) ==
    /\ ptext' = text
    /\ pvariant' = "ap"
    /\ parsed' = parse_date_fr(text, pclock)
    /\ UNCHANGED <<pclock, fetchVars, canonVars, mainVars>>

ParseApp(text) ==
    /\ ptext' = text
    /\ pvariant' = "app"
    /\ parsed' = parse_date_fr_app(text, pclock)
    /\ UNCHANGED <<pclock, fetchVars, canonVars, mainVars>>

ParseNext == \E text \in ParseTexts : ParseAp(text) \/ ParseApp(text)

SpecParse == ParseInit /\ [][ParseNext]_vars

(***************************************************************************)
(* Properties of the date parser (SpecParse).                              *)
(***************************************************************************)
\* the text gives a day and a month, no year, and the result comes from it
ParsedWithoutYear ==
    /\ parsed.found
    /\ ptext.lead # "none"
    /\ ptext.y = NoYear
    /\ ptext.kw = "none"

\* C9: when the matched text carries a day and a month but no year, the date
\* returned lies in the year of referenceNow if that month and day are not
\* before referenceNow, in the following year otherwise; it is never earlier
\* than the calendar day of referenceNow.
C9_YearInferredForward ==
    ParsedWithoutYear =>
        /\ DayOf(parsed.t) >= DayOf(pclock)
        /\ YearOf(parsed.t) =
              IF <<MonthOf(parsed.t), DayOfMonth(parsed.t)>> = <<MonthOf(pclock), DayOfMonth(pclock)>>
                 \/ MonthOf(parsed.t) > MonthOf(pclock)
                 \/ (MonthOf(parsed.t) = MonthOf(pclock) /\ DayOfMonth(parsed.t) > DayOfMonth(pclock))
              THEN YearOf(pclock)
              ELSE YearOf(pclock) + 1

\* what the code does instead: the year of the clock, whatever the month and day
C9_YearOfClock == ParsedWithoutYear => YearOf(parsed.t) = YearOf(pclock)

C9_PastDateReturned == ParsedWithoutYear /\ DayOf(parsed.t) < DayOf(pclock)

(***************************************************************************)
(* Properties of one extraction pass (SpecFetch).                          *)
(***************************************************************************)
BaseOf(src) == IF src = "maiia" THEN "https://www.maiia.com" ELSE "https://www.doctolib.fr"

\* the (name, url) pair of a raw card
CardKey(c) == <<strip(c.name), ResolveUrl(BaseOf(fsrc), c.href)>>

\* the date the pass reads on a raw card
CardDate(c) ==
    IF fsrc = "ap" THEN parse_date_fr(c.text, fnow + c.lag)
    ELSE parse_date_fr_app(c.text, fnow + c.lag)

\* the card passes every filter that comes before the duplicate test
Eligible(c) ==
    /\ fsrc = "ap" => strip(c.name) # "" /\ c.href # ""
    /\ ~c.broken
    /\ CardDate(c).found
    /\ fnow <= CardDate(c).t
    /\ CardDate(c).t <= PlusDays(fnow, fwindow)

RecordKey(r) == <<r.name, r.url>>

OnePerPair ==
    \A i, j \in 1 .. Len(out) : RecordKey(out[i]) = RecordKey(out[j]) => i = j

\* C7 as stated: at most one record per (name, url), and the record kept is
\* that of the first card of the input with that pair, whatever dates the
\* cards carry.
C7_FirstCardWins ==
    fsrc # "none" =>
        /\ OnePerPair
        /\ \A k \in 1 .. Len(out) :
              \E i \in 1 .. Len(cards) :
                 /\ CardKey(cards[i]) = RecordKey(out[k])
                 /\ \A j \in 1 .. (i - 1) : CardKey(cards[j]) # RecordKey(out[k])
                 /\ CardDate(cards[i]).found
                 /\ out[k].date = CardDate(cards[i]).t

\* C7 amended: at most one record per (name, url); the record kept is that of
\* the first card with that pair among the cards that pass the filters (name
\* and href not empty in ap.py, container readable, date found and inside
\* the window); every such pair has its record.
C7_FirstEligibleCardWins ==
    fsrc # "none" =>
        /\ OnePerPair
        /\ \A k \in 1 .. Len(out) :
              \E i \in 1 .. Len(cards) :
                 /\ Eligible(cards[i])
                 /\ CardKey(cards[i]) = RecordKey(out[k])
                 /\ \A j \in 1 .. (i - 1) :
                       ~(Eligible(cards[j]) /\ CardKey(cards[j]) = RecordKey(out[k]))
                 /\ out[k].date = CardDate(cards[i]).t
        /\ \A i \in 1 .. Len(cards) :
              Eligible(cards[i]) =>
                 \E k \in 1 .. Len(out) : RecordKey(out[k]) = CardKey(cards[i])

\* two cards that pass the filters share a pair and carry different dates,
\* and the pass kept one record, with the date of the first
C7_DuplicateDiscarded ==
    /\ fsrc # "none"
    /\ Len(cards) = 2
    /\ Eligible(cards[1]) /\ Eligible(cards[2])
    /\ CardKey(cards[1]) = CardKey(cards[2])
    /\ CardDate(cards[1]).t # CardDate(cards[2]).t
    /\ Len(out) = 1
    /\ out[1].date = CardDate(cards[1]).t

(***************************************************************************)
(* Properties of canonicalize (SpecCanon).                                 *)
(***************************************************************************)
NoDuplicates(q) == \A i, j \in 1 .. Len(q) : q[i] = q[j] => i = j

\* ascending by (day, name, url); equal keys may follow one another
AscendingByKey(q) ==
    \A i \in 1 .. (Len(q) - 1) : ~TupleLess(CanonSortKey(q[i + 1]), CanonSortKey(q[i]))

\* C8: for every list of records, canonicalize returns the canonical keys
\* (name, url, region-local day) without duplicates, sorted ascending by
\* (day, name, url), and two permutations of the same records give the same
\* ordered output.
C8_DedupSortedOrderIndependent ==
    cdone =>
        /\ KeySet(canon) = { <<r.name, r.url, DayString(r.date)>> : r \in { recs[i] : i \in 1 .. Len(recs) } }
        /\ NoDuplicates(canon)
        /\ AscendingByKey(canon)
        /\ canon2 = canon

\* what holds of the code for every list: the keys of the records, one per
\* record, sorted ascending, the same whatever the order of the records
C8_SortedOrderIndependent ==
    cdone =>
        /\ KeySet(canon) = { <<r.name, r.url, DayString(r.date)>> : r \in { recs[i] : i \in 1 .. Len(recs) } }
        /\ Len(canon) = Len(recs)
        /\ AscendingByKey(canon)
        /\ canon2 = canon

(***************************************************************************)
(* Properties of the runs of src/ap.py (Spec).                             *)
(***************************************************************************)
Ran == pc = "done"

SendCalled == Called("send_telegram", calls)

SaveCalled == Called("save_state", calls)

\* the run got past state.get and compute_diff
Loaded == error \notin {"AttributeError", "TypeError", "KeyError"}

\* position of the first call of f in the log (0: never called)
FirstCall(f) ==
    IF Called(f, calls) THEN CHOOSE i \in 1 .. Len(calls) :
                                /\ calls[i] = f
                                /\ \A j \in 1 .. (i - 1) : calls[j] # f
    ELSE 0

\* the keys a later load_state and state.get would hand to compute_diff
Persisted == KeySet(load_state(stored).entries)

SetDiffNonEmpty == KeySet(new) \ KeySet(old) # {} \/ KeySet(old) \ KeySet(new) # {}

\* C1: over any sequence of runs, save_state is called in a run only if that
\* run notifies, and it is given that run's new canonical snapshot; a run in
\* which nothing changed never writes the file; so after every run that
\* notifies, the persisted snapshot is the snapshot just notified.
C1_PersistedReflectsNotified ==
    Ran =>
        /\ SaveCalled => SendCalled /\ saveArg = new /\ new = canonicalize(out)
        /\ ~SetDiffNonEmpty => ~SaveCalled /\ stored = before
        /\ stored # before => SaveCalled /\ SetDiffNonEmpty
        /\ (Loaded /\ SendCalled) => Persisted = KeySet(new)

\* what holds of the code: the same, with the persisted snapshot that of the
\* last notification only where save_state returned
C1_SaveOnlyWhenNotified ==
    /\ Ran =>
          /\ SaveCalled => SendCalled /\ saveArg = new /\ new = canonicalize(out)
          /\ ~SetDiffNonEmpty => ~SaveCalled /\ stored = before
          /\ stored # before => SaveCalled /\ SetDiffNonEmpty
          /\ saveEnd = "done" => Persisted = KeySet(new)
    /\ lastSave.valid => Persisted = KeySet(canonicalize(lastSave.items))

\* a run notified a change and replaced the snapshot of an earlier run
C1_SnapshotReplaced ==
    /\ Ran /\ SaveCalled /\ saveEnd = "done"
    /\ new # <<>>
    /\ prevSave.valid
    /\ stored # before

\* C2: for every old snapshot, new snapshot and NOTIFY_WHEN_EMPTY, the run
\* notifies if and only if added or removed is not empty, or old and new are
\* both empty and NOTIFY_WHEN_EMPTY is set.
C2_NotifyIffChangedOrEmptyConfirm ==
    (Ran /\ Loaded) =>
        /\ added = KeySet(new) \ KeySet(old)
        /\ removed = KeySet(old) \ KeySet(new)
        /\ SendCalled <=> (SetDiffNonEmpty \/ (old = <<>> /\ new = <<>> /\ notifyWhenEmpty))
        /\ SendCalled <=> message.kind # "none"

\* nothing found, nothing known, and the run says so
C2_EmptyConfirmSent ==
    /\ Ran /\ Loaded
    /\ old = <<>> /\ new = <<>> /\ notifyWhenEmpty
    /\ SendCalled
    /\ added = {} /\ removed = {}

\* C3: after a run that notified and persisted its snapshot, a run that
\* extracts the same, non-empty, records and loads that snapshot computes an
\* empty diff, notifies nothing and writes nothing; diff(S, S) is empty for
\* every snapshot S, also for one that went through save_state and load_state.
C3_RerunIdempotent ==
    /\ (Ran /\ prevSave.valid /\ out = prevSave.items /\ out # <<>>) =>
          /\ added = {} /\ removed = {}
          /\ ~SendCalled /\ ~SaveCalled
          /\ stored = before
          /\ exit = "ok"
    /\ (Ran /\ Loaded) =>
          /\ compute_diff(new, new) = [added |-> {}, removed |-> {}]
          /\ compute_diff(load_state(json_dump(new)).entries, new) = [added |-> {}, removed |-> {}]
          /\ compute_diff(old, old) = [added |-> {}, removed |-> {}]

\* the second of two runs that extract the same records
C3_SecondRunSilent ==
    /\ Ran /\ prevSave.valid
    /\ out = prevSave.items /\ out # <<>>
    /\ before = json_dump(canonicalize(out))
    /\ ~SendCalled

\* the file is a snapshot as save_state writes it
WellFormed(file) ==
    /\ file.kind = "json" /\ file.top = "object" /\ file.items = "list"
    /\ \A i \in 1 .. Len(file.entries) :
          file.entries[i].shape = "object" /\ file.entries[i].hasDay

\* C4: whatever the file holds (absent, unreadable, no JSON, or JSON of
\* another layout), loading the previous snapshot yields an empty snapshot and
\* nothing raises in load_state, state.get or compute_diff: the run goes on
\* with old empty.
C4_LoadNeverRaises ==
    Ran =>
        /\ Loaded
        /\ ~WellFormed(before) => old = <<>>

\* what holds of the code: a file that is absent or that json.load rejects is
\* read as the empty snapshot
C4_UnparseableIsEmpty ==
    (Ran /\ before.kind # "json") => Loaded /\ old = <<>>

\* C5: when the process is interrupted during save_state, the file is the
\* complete previous snapshot or the complete new one.
C5_SaveAtomic ==
    (Ran /\ saveEnd = "kill") => stored \in {before, json_dump(saveArg)}

\* C6: when the write of the snapshot fails in a run that notifies, the run
\* still ends normally and the file is the previous one.
C6_WriteFailureRecovered ==
    (Ran /\ saveEnd = "error") => exit = "ok" /\ stored = before

SendThenSave ==
    /\ SendCalled /\ SaveCalled
    /\ FirstCall("send_telegram") < FirstCall("save_state")
    /\ saveArg = new
    /\ saveEnd = "done" => stored = json_dump(new)

====
